---- MODULE Spec2Model ----
\* Model of src/src/services/image.js (trilium image service):
\* format detection, shrink policy, the processImage pipeline and the
\* saveImage / updateImage calls with their detached commit.
EXTENDS Naturals, Sequences, FiniteSets, TLC

\* ---------------------------------------------------------------- bounds

\* longest byte stream of the pure-function specification
MaxLen == 3
\* number of saveImage / updateImage calls in one behaviour
MaxCalls == 2
\* number of notes the store can hold
MaxNotes == 1
\* longest extension string given to getImageMimeFromExtension
MaxExtLen == 3
\* largest of the small widths, heights and maximal dimensions of resize
MaxDim == 4

\* ---------------------------------------------------------------- bytes

\* A byte stream is a sequence of abstract bytes. The first byte is the
\* signature the detection libraries look at: P(NG), J(PEG), G(IF), W(EBP),
\* S(VG, the "<svg" prefix); "A" in second place is the multi-frame marker
\* that is-animated finds; "x" is any other byte.
Byte == {"P", "J", "G", "W", "S", "A", "x"}

Buffers == UNION {[1..n -> Byte] : n \in 0..MaxLen}

\* Strings of the program are sequences of characters, so that toLowerCase
\* and concatenation are computed and not assumed.
Chars(s) ==
  CASE s = "svg" -> <<"s", "v", "g">>
    [] s = "png" -> <<"p", "n", "g">>
    [] s = "jpg" -> <<"j", "p", "g">>
    [] s = "gif" -> <<"g", "i", "f">>
    [] s = "webp" -> <<"w", "e", "b", "p">>
    [] s = "image/" -> <<"i", "m", "a", "g", "e", "/">>
    [] s = "svg+xml" -> <<"s", "v", "g", "+", "x", "m", "l">>
    [] s = "unknown" -> <<"u", "n", "k", "n", "o", "w", "n">>
    [] s = "" -> <<>>

\* JavaScript values that the format code passes around: an object with an
\* ext property, a string, null and undefined.
JsObject(ext) == [t |-> "object", s |-> ext]
JsString(s) == [t |-> "string", s |-> s]
JsNull == [t |-> "null", s |-> <<>>]
JsUndefined == [t |-> "undefined", s |-> <<>>]

\* v.ext in JavaScript: the property of an object, undefined on a string
PropExt(v) == IF v.t = "object" THEN JsString(v.s) ELSE JsUndefined

\* ------------------------------------------------------------ libraries

\* is-svg
isSvg(buffer) == Len(buffer) >= 1 /\ buffer[1] = "S"

\* image-type: {ext, mime} of a known raster signature, or null
imageType(buffer) ==
  IF Len(buffer) = 0 THEN JsNull
  ELSE CASE buffer[1] = "P" -> JsObject(Chars("png"))
         [] buffer[1] = "J" -> JsObject(Chars("jpg"))
         [] buffer[1] = "G" -> JsObject(Chars("gif"))
         [] buffer[1] = "W" -> JsObject(Chars("webp"))
         [] OTHER -> JsNull

\* is-animated: multi-frame GIF, APNG or WEBP
isAnimated(buffer) ==
  Len(buffer) >= 2 /\ buffer[1] \in {"G", "P", "W"} /\ buffer[2] = "A"

\* ------------------------------------------------------- pure functions

getImageType(buffer) ==
  IF isSvg(buffer) THEN JsObject(Chars("svg"))
  ELSE IF imageType(buffer) # JsNull THEN imageType(buffer)
  ELSE JsString(Chars("jpg"))

LowerChar(c) ==
  CASE c = "P" -> "p" [] c = "N" -> "n" [] c = "G" -> "g" [] c = "J" -> "j"
    [] c = "S" -> "s" [] c = "V" -> "v" [] c = "I" -> "i" [] c = "F" -> "f"
    [] c = "W" -> "w" [] c = "E" -> "e" [] c = "B" -> "b"
    [] OTHER -> c

toLowerCase(s) == [i \in 1..Len(s) |-> LowerChar(s[i])]

\* The result of a call that may throw
Returned(v) == [threw |-> FALSE, v |-> v]
Threw == [threw |-> TRUE, v |-> <<>>]

\* getImageMimeFromExtension without its toLowerCase
getImageMimeNoLowerCase(ext) ==
  IF ext.t # "string" THEN Threw
  ELSE Returned(Chars("image/") \o (IF ext.s = Chars("svg") THEN Chars("svg+xml") ELSE ext.s))

\* ext.toLowerCase() throws a TypeError when ext is undefined
getImageMimeFromExtension(ext) ==
  IF ext.t # "string" THEN Threw
  ELSE LET e == toLowerCase(ext.s)
       IN Returned(Chars("image/") \o (IF e = Chars("svg") THEN Chars("svg+xml") ELSE e))

\* processImage without its else-if branch on isAnimated
EffectiveShrinkIgnoresAnimated(uploadBuffer, shrinkImageSwitch) ==
  IF PropExt(getImageType(uploadBuffer)) \in
       {JsString(Chars("webp")), JsString(Chars("svg")), JsString(Chars("gif"))}
  THEN FALSE
  ELSE shrinkImageSwitch

\* The shrink switch as processImage leaves it before line 28
EffectiveShrink(uploadBuffer, shrinkImageSwitch) ==
  LET origImageFormat == getImageType(uploadBuffer)
  IN IF PropExt(origImageFormat) \in
          {JsString(Chars("webp")), JsString(Chars("svg")), JsString(Chars("gif"))}
     THEN FALSE
     ELSE IF isAnimated(uploadBuffer) THEN FALSE
     ELSE shrinkImageSwitch

\* jimp: what image.getBufferAsync(MIME_JPEG) can give: a JPEG of any length
JpegOutputs == {<<"J">> \o [i \in 1..n |-> "x"] : n \in 0..MaxLen}

\* jimp.read decodes these signatures only
Decodable(buffer) == Len(buffer) >= 1 /\ buffer[1] \in {"P", "J", "G"}

\* Math.round(a / b) for positive integers
RoundDiv(a, b) == (2 * a + b) \div (2 * b)

\* resize comparing with >= in place of >
ResizePlanNonStrict(width, height, imageMaxWidthHeight) ==
  IF width >= height /\ width >= imageMaxWidthHeight
  THEN [branch |-> "width", width |-> imageMaxWidthHeight,
        height |-> RoundDiv(height * imageMaxWidthHeight, width)]
  ELSE IF height >= imageMaxWidthHeight
  THEN [branch |-> "height", width |-> RoundDiv(width * imageMaxWidthHeight, height),
        height |-> imageMaxWidthHeight]
  ELSE [branch |-> "none", width |-> width, height |-> height]

\* Lines 139-144 of resize: the branch taken and the size of the bitmap
\* after it; image.resize(m, jimp.AUTO) scales the other side by the same
\* factor and rounds it
ResizePlan(width, height, imageMaxWidthHeight) ==
  IF width > height /\ width > imageMaxWidthHeight
  THEN [branch |-> "width", width |-> imageMaxWidthHeight,
        height |-> RoundDiv(height * imageMaxWidthHeight, width)]
  ELSE IF height > imageMaxWidthHeight
  THEN [branch |-> "height", width |-> RoundDiv(width * imageMaxWidthHeight, height),
        height |-> imageMaxWidthHeight]
  ELSE [branch |-> "none", width |-> width, height |-> height]

\* resize(buffer, quality): the JPEG it resolves with, or a rejection; a
\* decodable signature may still hold a corrupt image
ResizeOutcomes(buffer) ==
  {Threw} \cup (IF Decodable(buffer) THEN {Returned(j) : j \in JpegOutputs} ELSE {})

\* shrinkImage comparing the lengths with > in place of >=
shrinkImageKeepsEqual(buffer, resized) ==
  LET finalImageBuffer == IF resized.threw THEN buffer ELSE resized.v
  IN IF Len(finalImageBuffer) > Len(buffer) THEN buffer ELSE finalImageBuffer

\* shrinkImage without the comparison of the lengths
shrinkImageNoSizeCheck(buffer, resized) ==
  IF resized.threw THEN buffer ELSE resized.v

shrinkImage(buffer, resized) ==
  LET finalImageBuffer == IF resized.threw THEN buffer ELSE resized.v
  IN IF Len(finalImageBuffer) >= Len(buffer) THEN buffer ELSE finalImageBuffer

\* shrinkImage without its try / catch: the rejection of resize leaves it
shrinkImageNoCatch(buffer, originalName, resized) ==
  [rejected |-> resized.threw, log |-> <<>>]

\* The try / catch of shrinkImage (lines 116-123): whether the promise of
\* shrinkImage rejects, and what it writes with log.error
shrinkImageTry(buffer, originalName, resized) ==
  [rejected |-> FALSE, log |-> IF resized.threw THEN <<originalName>> ELSE <<>>]

\* processImage detecting the format of the upload in place of the final bytes
processImageFormatOfUpload(uploadBuffer, shrinkImageSwitch, resized) ==
  LET finalImageBuffer ==
        IF EffectiveShrink(uploadBuffer, shrinkImageSwitch)
        THEN shrinkImage(uploadBuffer, resized)
        ELSE uploadBuffer
  IN [buffer |-> finalImageBuffer, imageFormat |-> getImageType(uploadBuffer)]

processImage(uploadBuffer, shrinkImageSwitch, resized) ==
  LET finalImageBuffer ==
        IF EffectiveShrink(uploadBuffer, shrinkImageSwitch)
        THEN shrinkImage(uploadBuffer, resized)
        ELSE uploadBuffer
  IN [buffer |-> finalImageBuffer, imageFormat |-> getImageType(finalImageBuffer)]

\* ------------------------------------------------------------ the store

VARIABLES
  nNotes,     \* notes created so far; their ids are 1..nNotes
  mime,       \* note.mime of the becca note object, per note
  dbMime,     \* the mime that note.save() has persisted, per note
  content,    \* the content that note.setContent() has persisted, per note
  label,      \* the originalFileName label, per note
  revisions,  \* the note revisions, per note, oldest first
  nCalls,     \* saveImage / updateImage calls made so far
  calls,      \* per call: its arguments and the position of its detached unit
  committed,  \* history: the contents that detached units committed, per note
  pure        \* the pure-function specification: inputs and results

vars == <<nNotes, mime, dbMime, content, label, revisions, nCalls, calls, committed, pure>>

store == <<nNotes, mime, dbMime, content, label, revisions, nCalls, calls, committed>>

NoteIds == 1..MaxNotes
CallIds == 1..MaxCalls

\* the uploads of the calls: a still PNG, bytes with no signature
Uploads == {<<"P", "x", "x">>, <<"x", "x">>}

Names == {"a.png", "b.png"}

NoLabel == "(none)"

NoAsset == [buffer |-> <<>>, imageFormat |-> JsUndefined]

\* history, in a call's record: pre is the mime and content of the call's
\* note when the call was made, seq the place of the unit's commit among
\* the commits on its note (0: not committed)
NoPre == [mime |-> <<>>, content |-> <<>>]

NoCall ==
  [kind |-> "none", note |-> 0, buf |-> <<>>, name |-> NoLabel, sw |-> FALSE,
   pc |-> "idle", out |-> NoAsset, why |-> "", seq |-> 0, pre |-> NoPre]

PureStart == [stage |-> "off", buf |-> <<>>, sw |-> FALSE, fmt |-> JsUndefined,
              shrink |-> FALSE, resized |-> Threw, asset |-> NoAsset,
              name |-> NoLabel, rejected |-> FALSE, log |-> <<>>, again |-> NoAsset,
              ext |-> <<>>, mimeOut |-> Threw,
              w |-> 0, h |-> 0, m |-> 0,
              plan |-> [branch |-> "none", width |-> 0, height |-> 0]]

\* an image note that an earlier saveImage created and whose unit committed
OldContent == <<"J", "x">>
OldMime == Chars("image/") \o Chars("jpg")
OldName == "old.jpg"

\* The store is empty, or holds one image note of an earlier upload.
StoreInit ==
  /\ nNotes \in {0, 1}
  /\ mime = [n \in NoteIds |-> IF n <= nNotes THEN OldMime ELSE <<>>]
  /\ dbMime = mime
  /\ content = [n \in NoteIds |-> IF n <= nNotes THEN OldContent ELSE <<>>]
  /\ label = [n \in NoteIds |-> IF n <= nNotes THEN OldName ELSE NoLabel]
  /\ revisions = [n \in NoteIds |-> <<>>]
  /\ nCalls = 0
  /\ calls = [c \in CallIds |-> NoCall]
  /\ committed = [n \in NoteIds |-> IF n <= nNotes THEN {OldContent} ELSE {}]

Init == StoreInit /\ pure = PureStart

\* noteRevisionService.createNoteRevision(note): a snapshot of the note's
\* current content and mime
createNoteRevision(revs, n) ==
  [revs EXCEPT ![n] = Append(@, [content |-> content[n], mime |-> mime[n]])]

\* saveImage writing the upload as content before it returns
saveImageWritesContent(uploadBuffer, originalName, shrinkImageSwitch) ==
  /\ nCalls < MaxCalls
  /\ nNotes < MaxNotes
  /\ LET n == nNotes + 1
         c == nCalls + 1
     IN /\ nNotes' = n
        /\ mime' = [mime EXCEPT ![n] = Chars("unknown")]
        /\ dbMime' = [dbMime EXCEPT ![n] = Chars("unknown")]
        /\ content' = [content EXCEPT ![n] = uploadBuffer]
        /\ label' = [label EXCEPT ![n] = originalName]
        /\ nCalls' = c
        /\ calls' = [calls EXCEPT ![c] =
             [kind |-> "save", note |-> n, buf |-> uploadBuffer, name |-> originalName,
              sw |-> shrinkImageSwitch, pc |-> "processing", out |-> NoAsset,
              why |-> "", seq |-> 0, pre |-> [mime |-> Chars("unknown"), content |-> Chars("")]]]
  /\ UNCHANGED <<revisions, committed, pure>>

\* The synchronous part of saveImage, up to its return: the note is created
\* with the placeholder mime and content, the label is added and processImage
\* is started (it is suspended at its first await, or its promise is resolved
\* and the callback queued).
saveImage(uploadBuffer, originalName, shrinkImageSwitch) ==
  /\ nCalls < MaxCalls
  /\ nNotes < MaxNotes
  /\ LET n == nNotes + 1
         c == nCalls + 1
     IN /\ nNotes' = n
        /\ mime' = [mime EXCEPT ![n] = Chars("unknown")]
        /\ dbMime' = [dbMime EXCEPT ![n] = Chars("unknown")]
        /\ content' = [content EXCEPT ![n] = Chars("")]
        /\ label' = [label EXCEPT ![n] = originalName]
        /\ nCalls' = c
        /\ calls' = [calls EXCEPT ![c] =
             [kind |-> "save", note |-> n, buf |-> uploadBuffer, name |-> originalName,
              sw |-> shrinkImageSwitch, pc |-> "processing", out |-> NoAsset,
              why |-> "", seq |-> 0, pre |-> [mime |-> Chars("unknown"), content |-> Chars("")]]]
  /\ UNCHANGED <<revisions, committed, pure>>

\* updateImage without its call of createNoteRevision
updateImageNoRevision(noteId, uploadBuffer, originalName) ==
  /\ nCalls < MaxCalls
  /\ noteId \in 1..nNotes
  /\ LET c == nCalls + 1
     IN /\ label' = [label EXCEPT ![noteId] = originalName]
        /\ nCalls' = c
        /\ calls' = [calls EXCEPT ![c] =
             [kind |-> "update", note |-> noteId, buf |-> uploadBuffer,
              name |-> originalName, sw |-> TRUE, pc |-> "processing", out |-> NoAsset,
              why |-> "", seq |-> 0, pre |-> [mime |-> mime[noteId], content |-> content[noteId]]]]
  /\ UNCHANGED <<nNotes, mime, dbMime, content, revisions, committed, pure>>

\* updateImage writing the upload as content before it returns
updateImageWritesContent(noteId, uploadBuffer, originalName) ==
  /\ nCalls < MaxCalls
  /\ noteId \in 1..nNotes
  /\ LET c == nCalls + 1
     IN /\ revisions' = createNoteRevision(revisions, noteId)
        /\ label' = [label EXCEPT ![noteId] = originalName]
        /\ content' = [content EXCEPT ![noteId] = uploadBuffer]
        /\ nCalls' = c
        /\ calls' = [calls EXCEPT ![c] =
             [kind |-> "update", note |-> noteId, buf |-> uploadBuffer,
              name |-> originalName, sw |-> TRUE, pc |-> "processing", out |-> NoAsset,
              why |-> "", seq |-> 0, pre |-> [mime |-> mime[noteId], content |-> content[noteId]]]]
  /\ UNCHANGED <<nNotes, mime, dbMime, committed, pure>>

\* The synchronous part of updateImage, up to its return.
updateImage(noteId, uploadBuffer, originalName) ==
  /\ nCalls < MaxCalls
  /\ noteId \in 1..nNotes
  /\ LET c == nCalls + 1
     IN /\ revisions' = createNoteRevision(revisions, noteId)
        /\ label' = [label EXCEPT ![noteId] = originalName]
        /\ nCalls' = c
        /\ calls' = [calls EXCEPT ![c] =
             [kind |-> "update", note |-> noteId, buf |-> uploadBuffer,
              name |-> originalName, sw |-> TRUE, pc |-> "processing", out |-> NoAsset,
              why |-> "", seq |-> 0, pre |-> [mime |-> mime[noteId], content |-> content[noteId]]]]
  /\ UNCHANGED <<nNotes, mime, dbMime, content, committed, pure>>

\* processImage's promise resolves after shrinkImage: resize has settled
shrinkDone(c) ==
  /\ calls[c].pc = "processing"
  /\ EffectiveShrink(calls[c].buf, calls[c].sw)
  /\ \E resized \in ResizeOutcomes(calls[c].buf) :
       calls' = [calls EXCEPT ![c].pc = "resolved",
                              ![c].out = processImage(calls[c].buf, calls[c].sw, resized)]
  /\ UNCHANGED <<nNotes, mime, dbMime, content, label, revisions, nCalls, committed, pure>>

\* processImage's promise resolves with the upload itself: no resize is made
keepDone(c) ==
  /\ calls[c].pc = "processing"
  /\ ~EffectiveShrink(calls[c].buf, calls[c].sw)
  /\ calls' = [calls EXCEPT ![c].pc = "resolved",
                            ![c].out = processImage(calls[c].buf, calls[c].sw, Threw)]
  /\ UNCHANGED <<nNotes, mime, dbMime, content, label, revisions, nCalls, committed, pure>>

\* the mime that the callback of a resolved call computes at line 68 / 97
CallMime(c) == getImageMimeFromExtension(PropExt(calls[c].out.imageFormat))

\* the commits made so far on the note of call c
CommitsOnNote(c) ==
  Cardinality({d \in CallIds : calls[d].note = calls[c].note /\ calls[d].pc = "committed"})

\* the then-callback giving way when the note was written since its call
commitUnlessChanged(c) ==
  /\ calls[c].pc = "resolved"
  /\ ~CallMime(c).threw
  /\ LET n == calls[c].note
         mine == content[n] = calls[c].pre.content
     IN /\ mime' = [mime EXCEPT ![n] = IF mine THEN CallMime(c).v ELSE @]
        /\ dbMime' = [dbMime EXCEPT ![n] = IF mine THEN CallMime(c).v ELSE @]
        /\ content' = [content EXCEPT ![n] = IF mine THEN calls[c].out.buffer ELSE @]
        /\ committed' = [committed EXCEPT ![n] = @ \cup {content'[n]}]
  /\ calls' = [calls EXCEPT ![c].pc = "committed", ![c].seq = CommitsOnNote(c) + 1]
  /\ UNCHANGED <<nNotes, label, revisions, nCalls, pure>>

\* The then-callback, run to its end: sql.transactional commits both writes.
commit(c) ==
  /\ calls[c].pc = "resolved"
  /\ ~CallMime(c).threw
  /\ LET n == calls[c].note
     IN /\ mime' = [mime EXCEPT ![n] = CallMime(c).v]
        /\ dbMime' = [dbMime EXCEPT ![n] = CallMime(c).v]
        /\ content' = [content EXCEPT ![n] = calls[c].out.buffer]
        /\ committed' = [committed EXCEPT ![n] = @ \cup {calls[c].out.buffer}]
  /\ calls' = [calls EXCEPT ![c].pc = "committed", ![c].seq = CommitsOnNote(c) + 1]
  /\ UNCHANGED <<nNotes, label, revisions, nCalls, pure>>

\* The then-callback when getImageMimeFromExtension throws: nothing has been
\* assigned, the exception leaves sql.transactional and the promise rejects.
commitThrows(c) ==
  /\ calls[c].pc = "resolved"
  /\ CallMime(c).threw
  /\ calls' = [calls EXCEPT ![c].pc = "failed", ![c].why = "TypeError"]
  /\ UNCHANGED <<nNotes, mime, dbMime, content, label, revisions, nCalls, committed, pure>>

\* the writes of the transaction that can fail: note.save(), note.setContent()
FailSteps == {"save", "setContent"}

\* sql.transactional(fn) when a write of fn fails: the writes to the store
\* are rolled back
rollback(c, step) ==
  /\ step \in FailSteps
  /\ calls' = [calls EXCEPT ![c].pc = "failed", ![c].why = "storage"]
  /\ UNCHANGED <<dbMime, content, committed>>

\* The then-callback when note.save() or note.setContent() fails: line 68 / 97
\* has assigned note.mime before the failing write.
commitFails(c, step) ==
  /\ calls[c].pc = "resolved"
  /\ ~CallMime(c).threw
  /\ mime' = [mime EXCEPT ![calls[c].note] = CallMime(c).v]
  /\ rollback(c, step)
  /\ UNCHANGED <<nNotes, label, revisions, nCalls, pure>>

Next ==
  \/ \E b \in Uploads, o \in Names, s \in BOOLEAN : saveImage(b, o, s)
  \/ \E n \in NoteIds, b \in Uploads, o \in Names : updateImage(n, b, o)
  \/ \E c \in CallIds : shrinkDone(c)
  \/ \E c \in CallIds : keepDone(c)
  \/ \E c \in CallIds : commit(c)
  \/ \E c \in CallIds : commitThrows(c)
  \/ \E c \in CallIds, step \in FailSteps : commitFails(c, step)

Spec == Init /\ [][Next]_vars

\* ------------------------------------------- the pure functions, applied

PureInputs ==
  {[PureStart EXCEPT !.stage = "input", !.buf = b, !.sw = s, !.name = o] :
     b \in Buffers, s \in BOOLEAN, o \in Names}

\* the characters of the extension strings
ExtChars == {"s", "v", "g", "S", "V", "G", "p", "n", "P", "N"}

ExtInputs ==
  {[PureStart EXCEPT !.stage = "ext", !.ext = e] :
     e \in UNION {[1..k -> ExtChars] : k \in 0..MaxExtLen}}

\* the sizes of the decoded bitmap and the values of imageMaxWidthHeight:
\* the small ones, and those of a 3000 x 2000 image with maximum 1000
DimValues == (1..MaxDim) \cup {2000, 3000}
MaxValues == (1..MaxDim) \cup {1000}

DimInputs ==
  {[PureStart EXCEPT !.stage = "bitmap", !.w = w, !.h = h, !.m = m] :
     w \in DimValues, h \in DimValues, m \in MaxValues}

PureInit == StoreInit /\ pure \in PureInputs \cup ExtInputs \cup DimInputs

\* lines 17-26 of processImage: detect the format, settle the switch
pureDetect ==
  /\ pure.stage = "input"
  /\ pure' = [pure EXCEPT !.stage = "detected",
                          !.fmt = getImageType(pure.buf),
                          !.shrink = EffectiveShrink(pure.buf, pure.sw)]
  /\ UNCHANGED store

\* lines 28-35 of processImage: shrink or keep, detect again
pureProcess ==
  /\ pure.stage = "detected"
  /\ \E resized \in (IF pure.shrink THEN ResizeOutcomes(pure.buf) ELSE {Threw}) :
       LET try == IF pure.shrink
                  THEN shrinkImageTry(pure.buf, pure.name, resized)
                  ELSE [rejected |-> FALSE, log |-> <<>>]
       IN pure' = [pure EXCEPT !.stage = "processed",
                               !.resized = resized,
                               !.rejected = try.rejected,
                               !.log = try.log,
                               !.asset = processImage(pure.buf, pure.sw, resized)]
  /\ UNCHANGED store

\* processImage applied to the bytes it returned, with the switch off
pureReprocess ==
  /\ pure.stage = "processed"
  /\ ~pure.rejected
  /\ pure' = [pure EXCEPT !.stage = "reprocessed",
                          !.again = processImage(pure.asset.buffer, FALSE, Threw)]
  /\ UNCHANGED store

\* getImageMimeFromExtension applied to an extension string
pureMime ==
  /\ pure.stage = "ext"
  /\ pure' = [pure EXCEPT !.stage = "mime",
                          !.mimeOut = getImageMimeFromExtension(JsString(pure.ext))]
  /\ UNCHANGED store

\* lines 139-144 of resize applied to a decoded bitmap
pureResize ==
  /\ pure.stage = "bitmap"
  /\ pure' = [pure EXCEPT !.stage = "scaled", !.plan = ResizePlan(pure.w, pure.h, pure.m)]
  /\ UNCHANGED store

PureNext == pureDetect \/ pureProcess \/ pureReprocess \/ pureMime \/ pureResize

PureSpec == PureInit /\ [][PureNext]_vars

\* ---------------------------------------------------------------- claims

NoShrinkExts == {Chars("webp"), Chars("svg"), Chars("gif")}

\* C4: for every byte stream getImageType returns a format whose extension is
\* a non-empty string: "svg" when the bytes are SVG, the extension of the
\* raster signature when one matches, "jpg" when none matches.
C4_DetectHasExtension ==
  pure.stage \in {"detected", "processed"} =>
    LET ext == PropExt(pure.fmt)
    IN /\ ext.t = "string"
       /\ ext.s # <<>>
       /\ isSvg(pure.buf) => ext.s = Chars("svg")
       /\ (~isSvg(pure.buf) /\ imageType(pure.buf) # JsNull) => ext.s = imageType(pure.buf).s
       /\ (~isSvg(pure.buf) /\ imageType(pure.buf) = JsNull) => ext.s = Chars("jpg")

\* the detected extension is webp, svg or gif, or the bytes are animated
ShrinkForcedOff ==
  \/ PropExt(pure.fmt).s \in NoShrinkExts
  \/ isAnimated(pure.buf)

\* the switch is off or forced off: no shrink is applied
ShrinkNotApplied == ~pure.sw \/ ShrinkForcedOff

\* C5: the bytes processImage returns are never longer than its input, and
\* they are the input itself whenever shrink is not applied (switch off,
\* format webp, svg or gif, or animated bytes).
C5_OutputNoLonger ==
  pure.stage = "processed" =>
    /\ Len(pure.asset.buffer) <= Len(pure.buf)
    /\ ShrinkNotApplied => pure.asset.buffer = pure.buf

\* shrink was applied, the resize succeeded and its JPEG is longer than the
\* input: the input is what processImage returned
C5_Witness ==
  /\ pure.stage = "processed"
  /\ ~ShrinkNotApplied
  /\ ~pure.resized.threw
  /\ Len(pure.resized.v) > Len(pure.buf)
  /\ pure.asset.buffer = pure.buf

\* C6: the effective shrink decision is false whenever the detected extension
\* is webp, svg or gif or the bytes are animated, whatever the requested
\* switch; in every other case it is the requested switch.
C6_ShrinkDecision ==
  pure.stage \in {"detected", "processed"} =>
    pure.shrink = (IF ShrinkForcedOff THEN FALSE ELSE pure.sw)

\* an animated PNG with the switch on: the decision is false
C6_Witness ==
  /\ pure.stage = "detected"
  /\ pure.sw
  /\ isAnimated(pure.buf)
  /\ PropExt(pure.fmt).s = Chars("png")
  /\ ~pure.shrink

\* the note of call c holds a revision with the content and mime the note
\* had when the call was made
HasSnapshot(c) ==
  \E i \in 1..Len(revisions[calls[c].note]) :
    revisions[calls[c].note][i] = [content |-> calls[c].pre.content, mime |-> calls[c].pre.mime]

\* C1: in updateImage the revision snapshot is recorded before the call's
\* detached commit makes the new mime and content visible: in no reachable
\* state has the call committed without its snapshot.
C1_SnapshotBeforeCommit ==
  \A c \in CallIds :
    (calls[c].kind = "update" /\ calls[c].pc = "committed") => HasSnapshot(c)

\* an update has committed: its content is the note's, its snapshot exists
C1_Witness ==
  \E c \in CallIds :
    /\ calls[c].kind = "update"
    /\ calls[c].pc = "committed"
    /\ content[calls[c].note] = calls[c].out.buffer
    /\ content[calls[c].note] # calls[c].pre.content
    /\ HasSnapshot(c)

\* C2: a content that was the note's committed content is never gone
\* without a revision that holds it, also when updates overlap.
C2_NoContentLost ==
  \A n \in 1..nNotes : \A v \in committed[n] :
    \/ content[n] = v
    \/ \E i \in 1..Len(revisions[n]) : revisions[n][i].content = v

\* C3: a unit of saveImage or updateImage ends Committed for every input
\* unless the storage transaction fails: no unit has ended otherwise. (A
\* failed unit takes no further step, so a state that violates this is the
\* end of a unit that never commits.)
C3_EndsCommitted ==
  \A c \in CallIds : calls[c].pc = "failed" => calls[c].why = "storage"

\* the mime and content a note was created with
InitialPair(n) ==
  IF \E c \in CallIds : calls[c].kind = "save" /\ calls[c].note = n
  THEN <<Chars("unknown"), Chars("")>>
  ELSE <<OldMime, OldContent>>

\* the mime and content of the processed assets of the calls on a note
AssetPairs(n) ==
  {<<CallMime(c).v, calls[c].out.buffer>> :
     c \in {d \in CallIds : /\ calls[d].note = n
                            /\ calls[d].pc \in {"resolved", "committed", "failed"}
                            /\ ~CallMime(d).threw}}

\* C7: outside the transaction a reader sees the note's mime and content
\* either both as they were or both of one processed asset.
C7_CommitAllOrNothing ==
  \A n \in 1..nNotes : <<mime[n], content[n]>> \in {InitialPair(n)} \cup AssetPairs(n)

\* C8: when the commit transaction fails at note.save or note.setContent,
\* the note's mime (that of the note object too) and content are unchanged.
C8_FailureChangesNothing ==
  [][\A c \in CallIds :
       (calls[c].pc = "resolved" /\ calls'[c].pc = "failed" /\ calls'[c].why = "storage")
         => (mime' = mime /\ dbMime' = dbMime /\ content' = content)]_vars

\* C9 as stated: no state in which an update's snapshot is recorded while
\* its mime and content are not written.
C9_SnapshotWithCommit ==
  \A c \in CallIds :
    (calls[c].kind = "update" /\ HasSnapshot(c)) => calls[c].pc = "committed"

\* C9, amended: the snapshot is recorded by the synchronous part of
\* updateImage and not by the commit: every update whose mime and content
\* are not written (unit pending or failed) has its snapshot.
C9_SnapshotApartFromCommit ==
  \A c \in CallIds :
    (calls[c].kind = "update" /\ calls[c].pc \in {"processing", "resolved", "failed"})
      => HasSnapshot(c)

\* an update's commit was aborted by a storage failure: the snapshot stays,
\* the content is the old one
C9_Witness ==
  \E c \in CallIds :
    /\ calls[c].kind = "update"
    /\ calls[c].pc = "failed"
    /\ calls[c].why = "storage"
    /\ content[calls[c].note] = calls[c].pre.content
    /\ HasSnapshot(c)

\* C10: saveImage and updateImage return before their unit commits: on the
\* return of saveImage the note has mime "unknown", empty content and the
\* label; on the return of updateImage the label is recorded and the
\* note's mime and content are what they were before the call.
C10_ReturnBeforeCommit ==
  [][\A c \in CallIds :
       (calls[c].pc = "idle" /\ calls'[c].pc # "idle") =>
         LET n == calls'[c].note
         IN /\ calls'[c].pc = "processing"
            /\ label'[n] = calls'[c].name
            /\ calls'[c].kind = "save" =>
                 (mime'[n] = Chars("unknown") /\ content'[n] = Chars(""))
            /\ calls'[c].kind = "update" =>
                 (mime'[n] = mime[n] /\ content'[n] = content[n])]_vars

\* an update has returned and its unit has not finished: the label is the
\* new one, mime and content are the old ones
C10_Witness ==
  \E c \in CallIds :
    /\ calls[c].kind = "update"
    /\ calls[c].pc = "processing"
    /\ label[calls[c].note] = calls[c].name
    /\ label[calls[c].note] # OldName
    /\ mime[calls[c].note] = OldMime
    /\ content[calls[c].note] = OldContent

\* C11: a failure of the resize step is recovered locally: it is logged with
\* the original filename, processImage still resolves, with the original
\* bytes, and the failure does not leave processImage.
C11_ResizeFailureRecovered ==
  (pure.stage = "processed" /\ pure.shrink /\ pure.resized.threw) =>
    /\ ~pure.rejected
    /\ pure.log = <<pure.name>>
    /\ pure.asset.buffer = pure.buf

\* shrink was applied to a PNG that jimp could not decode
C11_Witness ==
  /\ pure.stage = "processed"
  /\ pure.shrink
  /\ pure.resized.threw
  /\ Decodable(pure.buf)
  /\ pure.log = <<pure.name>>
  /\ pure.asset.buffer = pure.buf

\* C14: processImage applied to the bytes of an asset it produced, with the
\* switch off, returns the same bytes and the same format.
C14_Idempotent ==
  pure.stage = "reprocessed" => pure.again = pure.asset

\* the asset is a resized JPEG of a PNG upload, and processing it again
\* gave the same JPEG
C14_Witness ==
  /\ pure.stage = "reprocessed"
  /\ pure.asset.buffer # pure.buf
  /\ PropExt(pure.fmt).s = Chars("png")
  /\ PropExt(pure.again.imageFormat).s = Chars("jpg")
  /\ pure.again.buffer = pure.asset.buffer

\* C16: when shrink is applied and the resize succeeds with a result at
\* least as long as the input (equal length too), processImage returns the
\* original bytes and the format detected for them.
C16_NoImprovementKeepsOriginal ==
  (/\ pure.stage = "processed"
   /\ pure.shrink
   /\ ~pure.resized.threw
   /\ Len(pure.resized.v) >= Len(pure.buf)) =>
    /\ pure.asset.buffer = pure.buf
    /\ pure.asset.imageFormat = pure.fmt

\* the resized JPEG is exactly as long as the PNG it was made from
C16_Witness ==
  /\ pure.stage = "processed"
  /\ pure.shrink
  /\ ~pure.resized.threw
  /\ Len(pure.resized.v) = Len(pure.buf)
  /\ PropExt(pure.fmt).s = Chars("png")
  /\ pure.asset.buffer = pure.buf

\* C13 as stated: "image/svg+xml" when ext is "svg", otherwise "image/"
\* followed by ext in lower case.
C13_MimeBitExact ==
  pure.stage = "mime" =>
    pure.mimeOut = Returned(IF pure.ext = Chars("svg")
                            THEN Chars("image/") \o Chars("svg+xml")
                            ELSE Chars("image/") \o toLowerCase(pure.ext))

\* C13, amended: "image/svg+xml" when ext in lower case is "svg" (so for
\* "SVG" too), otherwise "image/" followed by ext in lower case.
C13_MimeOfLowerCase ==
  pure.stage = "mime" =>
    pure.mimeOut = Returned(IF toLowerCase(pure.ext) = Chars("svg")
                            THEN Chars("image/") \o Chars("svg+xml")
                            ELSE Chars("image/") \o toLowerCase(pure.ext))

\* "PNG" has given "image/png"
C13_Witness ==
  /\ pure.stage = "mime"
  /\ pure.ext = <<"P", "N", "G">>
  /\ pure.mimeOut = Returned(Chars("image/") \o Chars("png"))

\* C17: resize takes exactly one branch, with strict comparisons: width
\* bound when w > h and w > m, else height bound when h > m, else no
\* resize; a side equal to m is never the one bound, a square image larger
\* than m is bound on its height, and 3000 x 2000 with m = 1000 becomes
\* 1000 x 667.
C17_ResizeBranches ==
  pure.stage = "scaled" =>
    LET w == pure.w
        h == pure.h
        m == pure.m
        first == w > h /\ w > m
    IN /\ first => pure.plan = [branch |-> "width", width |-> m, height |-> RoundDiv(h * m, w)]
       /\ (~first /\ h > m) =>
            pure.plan = [branch |-> "height", width |-> RoundDiv(w * m, h), height |-> m]
       /\ (~first /\ ~(h > m)) => pure.plan = [branch |-> "none", width |-> w, height |-> h]
       /\ w = m => pure.plan.branch # "width"
       /\ h = m => pure.plan.branch # "height"
       /\ (w = h /\ w > m) => pure.plan.branch = "height"
       /\ (w = 3000 /\ h = 2000 /\ m = 1000) => (pure.plan.width = 1000 /\ pure.plan.height = 667)

\* the 3000 x 2000 image with maximum 1000 has become 1000 x 667
C17_Witness ==
  /\ pure.stage = "scaled"
  /\ pure.w = 3000 /\ pure.h = 2000 /\ pure.m = 1000
  /\ pure.plan = [branch |-> "width", width |-> 1000, height |-> 667]

\* the calls made on note n
CallsOn(n) == {c \in CallIds : calls[c].pc # "idle" /\ calls[c].note = n}

\* C12: the synchronous call always succeeds and records the label,
\* however its unit ends; when the transformation or the commit fails, the
\* note's content and mime stay at their placeholder or prior values.
C12_FailureLeavesNote ==
  \A n \in 1..nNotes : \A c \in CallsOn(n) :
    /\ (\A d \in CallsOn(n) : d <= c) => label[n] = calls[c].name
    /\ (calls[c].pc = "failed" /\ CallsOn(n) = {c}) =>
         (mime[n] = calls[c].pre.mime /\ content[n] = calls[c].pre.content)

\* the unit on note n that committed last
LastCommitted(n) ==
  {c \in CallsOn(n) :
     /\ calls[c].pc = "committed"
     /\ \A d \in CallsOn(n) : calls[d].seq <= calls[c].seq}

\* C15: when units race on a note, the note's mime and content are those of
\* the unit that committed last, whichever call it belongs to, and every
\* unit commits without a conflict. (The mime of the note object is that of
\* the last commit as long as no transaction on the note has failed.)
C15_LastCommitWins ==
  \A n \in 1..nNotes : \A c \in LastCommitted(n) :
    /\ content[n] = calls[c].out.buffer
    /\ dbMime[n] = CallMime(c).v
    /\ (\A d \in CallsOn(n) : calls[d].why # "storage") => mime[n] = CallMime(c).v

\* two units on one note have both committed, the unit of the earlier call
\* last: the note holds its content, not that of the later call
C15_Witness ==
  \E c, d \in CallIds :
    /\ c < d
    /\ calls[c].note = calls[d].note
    /\ calls[c].pc = "committed" /\ calls[d].pc = "committed"
    /\ calls[c].seq > calls[d].seq
    /\ calls[c].out.buffer # calls[d].out.buffer
    /\ content[calls[c].note] = calls[c].out.buffer
    /\ mime[calls[c].note] = CallMime(c).v

\* C18: the note's mime and content are written only by the transaction of
\* a detached unit: the synchronous part of updateImage, saveImage after
\* the creation of its note, and processImage leave them alone.
C18_WrittenOnlyInTransaction ==
  [][\A n \in NoteIds :
       (mime'[n] # mime[n] \/ dbMime'[n] # dbMime[n] \/ content'[n] # content[n]) =>
         \/ \E c \in CallIds : /\ calls[c].note = n
                               /\ calls[c].pc = "resolved"
                               /\ calls'[c].pc \in {"committed", "failed"}
         \/ /\ nNotes' = nNotes + 1
            /\ n = nNotes'
            /\ mime'[n] = Chars("unknown")
            /\ dbMime'[n] = Chars("unknown")
            /\ content'[n] = Chars("")]_vars

\* processImage of an update has resolved with new bytes, the snapshot and
\* the label are recorded, and the note's mime and content are untouched
C18_Witness ==
  \E c \in CallIds :
    /\ calls[c].kind = "update"
    /\ calls[c].pc = "resolved"
    /\ calls[c].out.buffer # content[calls[c].note]
    /\ Len(revisions[calls[c].note]) >= 1
    /\ mime[calls[c].note] = calls[c].pre.mime
    /\ dbMime[calls[c].note] = calls[c].pre.mime
    /\ content[calls[c].note] = calls[c].pre.content

\* C19: on a note on which a unit has committed, the mime is
\* getImageMimeFromExtension of the format detected for the current content.
C19_MimeMatchesContent ==
  \A n \in 1..nNotes :
    committed[n] # {} =>
      Returned(mime[n]) = getImageMimeFromExtension(PropExt(getImageType(content[n])))

\* C20: once all the units launched on a note have committed, the note's
\* label and content come from the same call.
C20_LabelAndContentOfOneCall ==
  \A n \in 1..nNotes :
    (CallsOn(n) # {} /\ \A c \in CallsOn(n) : calls[c].pc = "committed") =>
      \E c \in CallsOn(n) : label[n] = calls[c].name /\ content[n] = calls[c].out.buffer

====
